---- MODULE Spec2Model ----
(***************************************************************************)
(* Model of the TSL2561 luminosity sensor driver (src/tsl2561.py).         *)
(*                                                                         *)
(* The driver object is the Python instance dictionary `self`; an          *)
(* attribute that was never assigned is absent from DOMAIN self.  Every    *)
(* method is one action.  The I2C bus and the sensor behind it are the     *)
(* environment: a bus transaction either completes or raises (the input    *)
(* failAt names the transaction that raises, 0 for none), and a recv       *)
(* returns the register the preceding command byte addressed.  What the    *)
(* sensor's registers hold during a call is an input of the call.          *)
(***************************************************************************)
EXTENDS Integers, Sequences, FiniteSets, TLC

VARIABLES
    self,    \* instance dictionary of the driver; empty before construction
    dev,     \* the sensor: the value last written to its control register
    bus,     \* bus transactions issued by the last call, in order
    result   \* outcome of the last call: op, args, status, value

vars == <<self, dev, bus, result>>

---------------------------------------------------------------------------
\* Bounds of the model.

\* set_timing_gain is called with timing in 0..MaxTimingArg (0..3 are valid)
MaxTimingArg == 4
\* the data registers hold one of the first NumSamples entries of
\* ChannelSamples during a read
NumSamples == 14

---------------------------------------------------------------------------
\* Program constants.

T_FAST == 0
T_MEDIUM == 1
T_SLOW == 2
T_MANUAL == 3

\* command bytes, written in binary in the source
CMD_CONTROL == 128
CMD_TIMING == 129
CMD_ID == 138
CMD_DATA0LOW == 140
CMD_DATA0HIGH == 141
CMD_DATA1LOW == 142
CMD_DATA1HIGH == 143
\* power-up data byte
POWER_UP == 3
\* default bus address
DEFAULT_ADDR == 57

---------------------------------------------------------------------------
\* Python values: a value carries its class.

PyBool(b) == [type |-> "bool", val |-> b]
PyInt(n) == [type |-> "int", val |-> n]
PyBytes(s) == [type |-> "bytes", val |-> s]
PyNone == [type |-> "NoneType", val |-> 0]

\* == between two objects: objects of different classes are never equal
\* (bool is a subclass of int and compares by value)
IntOf(v) == IF v.type = "bool" THEN (IF v.val THEN 1 ELSE 0) ELSE v.val

IsNum(v) == v.type \in {"bool", "int"}

PyEq(a, b) ==
    IF IsNum(a) /\ IsNum(b) THEN IntOf(a) = IntOf(b)
    ELSE IF a.type = b.type THEN a.val = b.val
    ELSE FALSE

\* truth value of an object
Truthy(v) ==
    IF v.type = "bool" THEN v.val
    ELSE IF v.type = "int" THEN v.val # 0
    ELSE IF v.type = "bytes" THEN Len(v.val) > 0
    ELSE FALSE

\* x << n on Python integers (no fixed width)
Shl(x, n) == x * (2 ^ n)

RECURSIVE BitOr(_, _)
BitOr(a, b) ==
    IF a = 0 THEN b
    ELSE IF b = 0 THEN a
    ELSE (IF (a % 2 = 1) \/ (b % 2 = 1) THEN 1 ELSE 0)
         + 2 * BitOr(a \div 2, b \div 2)

RECURSIVE BitAnd(_, _)
BitAnd(a, b) ==
    IF a = 0 \/ b = 0 THEN 0
    ELSE (IF (a % 2 = 1) /\ (b % 2 = 1) THEN 1 ELSE 0)
         + 2 * BitAnd(a \div 2, b \div 2)

Shr(x, n) == x \div (2 ^ n)

---------------------------------------------------------------------------
\* The sensor and the bus.

\* channel pairs the ADC can latch (channel 0, channel 1), 16 bit each
ChannelSamples ==
    << <<0, 0>>, <<0, 4660>>, <<100, 0>>, <<100, 40>>, <<100, 50>>,
       <<100, 51>>, <<100, 61>>, <<100, 62>>, <<100, 80>>, <<100, 81>>,
       <<100, 130>>, <<100, 131>>, <<4660, 13330>>, <<65535, 65535>>,
       <<25600, 15616>>, <<25600, 15617>> >>

DataRegs == {CMD_DATA0LOW, CMD_DATA0HIGH, CMD_DATA1LOW, CMD_DATA1HIGH}

\* the four data registers holding a channel pair
DataOf(p) ==
    (CMD_DATA0LOW :> (p[1] % 256)) @@ (CMD_DATA0HIGH :> (p[1] \div 256)) @@
    (CMD_DATA1LOW :> (p[2] % 256)) @@ (CMD_DATA1HIGH :> (p[2] \div 256))

\* bytes a read of the control or the ID register can return
RegReadbacks == {0, 3, 165}

\* What the sensor's registers hold during one call: rb is read from the
\* control and the ID register, data from the four data registers.
Regs(rb, p) == [rb |-> rb, data |-> DataOf(p)]

\* the sensor takes a write: the first byte is the command (register
\* address), a second byte is stored in that register
DevSend(d, w) ==
    IF Len(w) < 2 THEN d
    ELSE IF w[1] = CMD_CONTROL THEN [d EXCEPT !.power = w[2]]
    ELSE d

\* the sensor answers a one-byte read of the register ptr addresses
DevRecv(regs, ptr) ==
    IF ptr \in DataRegs THEN regs.data[ptr] ELSE regs.rb

\* the bytes I2C.send puts on the wire: an integer is sent as one byte
WireBytes(v) == IF v.type = "int" THEN <<v.val>> ELSE v.val

\* bus transactions
TxSend(v) == [kind |-> "send", data |-> WireBytes(v), status |-> "ok"]
TxRecv(n) == [kind |-> "recv", data |-> [k \in 1..n |-> 0], status |-> "ok"]
TxReady(ok) ==
    [kind |-> "is_ready", data |-> <<>>, status |-> IF ok THEN "ok" ELSE "nak"]

\* Run the transactions of script from index i on: st.dev is the sensor,
\* st.ptr the register the last command addressed, st.log the transactions
\* issued, st.rx the objects recv returned, st.status "OSError" once a
\* transaction raised.  Transaction failAt raises; nothing after it is issued.
RECURSIVE Run(_, _, _, _, _)
Run(script, i, st, failAt, regs) ==
    IF i > Len(script) THEN st
    ELSE IF i = failAt
    THEN [st EXCEPT !.log = Append(@, [script[i] EXCEPT !.status = "OSError"]),
                    !.status = "OSError"]
    ELSE IF script[i].kind = "send"
    THEN Run(script, i + 1,
             [st EXCEPT !.dev = DevSend(@, script[i].data),
                        !.ptr = script[i].data[1],
                        !.log = Append(@, script[i])],
             failAt, regs)
    ELSE LET b == DevRecv(regs, st.ptr) IN
         Run(script, i + 1,
             [st EXCEPT !.log = Append(@, [script[i] EXCEPT !.data = <<b>>]),
                        !.rx = Append(@, PyBytes(<<b>>))],
             failAt, regs)

Start(d) ==
    [dev |-> d, ptr |-> 0, log |-> <<>>, rx |-> <<>>, status |-> "ok"]

\* what a method call leaves behind
Outcome(status, value, st) ==
    [status |-> status, value |-> value, dev |-> st.dev, log |-> st.log]

---------------------------------------------------------------------------
\* The methods of TSL2561, as functions of their inputs.

NoValue == <<>>

\* set_power_up(s): write the control register; on power up read one byte
\* back and compare it
set_power_up(s, d, failAt, regs) ==
    IF s.type # "bool" THEN Outcome("ValueError", NoValue, Start(d))
    ELSE
      LET b == <<CMD_CONTROL, IF s.val THEN POWER_UP ELSE 0>>
          script == IF s.val
                    THEN <<TxSend(PyBytes(b)), TxRecv(1)>>
                    ELSE <<TxSend(PyBytes(b))>>
          st == Run(script, 1, Start(d), failAt, regs)
      IN  IF st.status # "ok" THEN Outcome("OSError", NoValue, st)
          ELSE IF s.val /\ PyEq(st.rx[1], PyInt(POWER_UP))
          THEN Outcome("StartupFailed", NoValue, st)
          ELSE Outcome("ok", NoValue, st)

\* mutant: manual_start packed only in manual timing mode
TimingByte_ManualOnly(timing, gain, manual_start) ==
    BitOr(BitOr(Shl(IntOf(gain), 4),
                IF timing = T_MANUAL THEN Shl(IntOf(manual_start), 3) ELSE 0),
          timing)

\* the byte set_timing_gain packs: gain << 4 | manual_start << 3 | timing
TimingByte(timing, gain, manual_start) ==
    BitOr(BitOr(Shl(IntOf(gain), 4), Shl(IntOf(manual_start), 3)), timing)

ValidTimings == {T_FAST, T_MEDIUM, T_SLOW, T_MANUAL}

\* set_timing_gain: the instance dictionary after the call
set_timing_gain_self(slf, timing, gain, manual_start) ==
    IF timing \notin ValidTimings \/ gain.type # "bool"
       \/ manual_start.type # "bool"
    THEN slf
    ELSE ("_gain" :> gain) @@ ("_timing" :> PyInt(timing)) @@ slf

\* set_timing_gain: validation, then the cache, then the write
set_timing_gain(timing, gain, manual_start, d, failAt) ==
    IF timing \notin ValidTimings THEN Outcome("ValueError", NoValue, Start(d))
    ELSE IF gain.type # "bool" THEN Outcome("ValueError", NoValue, Start(d))
    ELSE IF manual_start.type # "bool"
    THEN Outcome("ValueError", NoValue, Start(d))
    ELSE
      LET b == <<CMD_TIMING, TimingByte(timing, gain, manual_start)>>
          st == Run(<<TxSend(PyBytes(b))>>, 1, Start(d), failAt,
                    Regs(0, <<0, 0>>))
      IN  IF st.status # "ok" THEN Outcome("OSError", NoValue, st)
          ELSE Outcome("ok", NoValue, st)

\* get_id: part number and revision number of the ID register
get_id(d, failAt, regs) ==
    LET st == Run(<<TxSend(PyBytes(<<CMD_ID>>)), TxRecv(1)>>, 1, Start(d),
                  failAt, regs)
    IN  IF st.status # "ok" THEN Outcome("OSError", NoValue, st)
        ELSE LET id_reg == st.rx[1].val[1]
             IN  Outcome("ok", <<Shr(id_reg, 4), BitAnd(id_reg, 15)>>, st)

\* mutant: the high byte of channel 0 is read before its low byte
RawLumiScript_Swapped ==
    << TxSend(PyInt(CMD_DATA0HIGH)), TxRecv(1),
       TxSend(PyInt(CMD_DATA0LOW)), TxRecv(1),
       TxSend(PyInt(CMD_DATA1LOW)), TxRecv(1),
       TxSend(PyInt(CMD_DATA1HIGH)), TxRecv(1) >>

\* the transactions of _raw_lumi
RawLumiScript ==
    << TxSend(PyInt(CMD_DATA0LOW)), TxRecv(1),
       TxSend(PyInt(CMD_DATA0HIGH)), TxRecv(1),
       TxSend(PyInt(CMD_DATA1LOW)), TxRecv(1),
       TxSend(PyInt(CMD_DATA1HIGH)), TxRecv(1) >>

\* mutant: the shifted value is cut to 16 bits
GainShift_Truncated(gain, c) ==
    IF ~Truthy(gain) THEN Shl(c, 4) % 65536 ELSE c

\* the gain compensation of _raw_lumi
GainShift(gain, c) == IF ~Truthy(gain) THEN Shl(c, 4) ELSE c

\* _raw_lumi: four register reads, two 16-bit values, shifted when the
\* cached gain is off
_raw_lumi(slf, d, failAt, regs) ==
    LET st == Run(RawLumiScript, 1, Start(d), failAt, regs)
    IN  IF st.status # "ok" THEN Outcome("OSError", NoValue, st)
        ELSE
          LET c0_l == st.rx[1].val[1]
              c0_h == st.rx[2].val[1]
              c1_l == st.rx[3].val[1]
              c1_h == st.rx[4].val[1]
              c0 == c0_h * 256 + c0_l
              c1 == c1_h * 256 + c1_l
          IN  IF "_gain" \notin DOMAIN slf
              THEN Outcome("AttributeError", NoValue, st)
              ELSE Outcome("ok", <<GainShift(slf["_gain"], c0),
                                   GainShift(slf["_gain"], c1)>>, st)

\* Floating point.  c = raw[1] / raw[0] is the float nearest the quotient and
\* a literal is the float nearest its decimal.  The shift scales both channels
\* alike, so the quotient is that of two 16-bit integers; the literals have
\* at most two decimals, so a quotient that differs from a literal differs by
\* at least 1/(100 * 65535), more than two roundings of a 32-bit or 64-bit
\* float near 1 can bridge: comparing the floats is comparing the exact
\* fractions.  A float is kept as the fraction <<numerator, denominator>>.
FloatDiv(a, b) == <<a, b>>
FloatLit(n, d) == <<n, d>>
FloatLe(x, y) == x[1] * y[2] <= y[1] * x[2]
FloatGt(x, y) == x[1] * y[2] > y[1] * x[2]

\* A lux value (t1 - t2 * c^1.4) / den when pow, (t1 - t2) / den otherwise;
\* branch names the assignment to l that produced it (0: the initial l = 0,
\* 5: the final else).
LuxValue(branch, t1, t2, den, pow) ==
    [branch |-> branch, t1 |-> t1, t2 |-> t2, den |-> den, pow |-> pow]

\* mutant: no final else, a ratio above 1.3 takes the last formula
Lux_NoUpperLimit(raw) ==
    IF raw[1] # 0
    THEN LET c == FloatDiv(raw[2], raw[1]) IN
         IF FloatGt(c, FloatLit(0, 1))
         THEN IF FloatLe(c, FloatLit(5, 10))
              THEN LuxValue(1, 304 * raw[1], 620 * raw[1], 10000, TRUE)
              ELSE IF FloatLe(c, FloatLit(61, 100))
              THEN LuxValue(2, 224 * raw[1], 310 * raw[2], 10000, FALSE)
              ELSE IF FloatLe(c, FloatLit(8, 10))
              THEN LuxValue(3, 128 * raw[1], 153 * raw[2], 10000, FALSE)
              ELSE LuxValue(4, 146 * raw[1], 112 * raw[2], 100000, FALSE)
         ELSE LuxValue(0, 0, 0, 1, FALSE)
    ELSE LuxValue(0, 0, 0, 1, FALSE)

\* mutant: the upper bounds of the ratio ranges are exclusive
Lux_Exclusive(raw) ==
    IF raw[1] # 0
    THEN LET c == FloatDiv(raw[2], raw[1]) IN
         IF FloatGt(c, FloatLit(0, 1))
         THEN IF ~FloatLe(FloatLit(5, 10), c)
              THEN LuxValue(1, 304 * raw[1], 620 * raw[1], 10000, TRUE)
              ELSE IF ~FloatLe(FloatLit(61, 100), c)
              THEN LuxValue(2, 224 * raw[1], 310 * raw[2], 10000, FALSE)
              ELSE IF ~FloatLe(FloatLit(8, 10), c)
              THEN LuxValue(3, 128 * raw[1], 153 * raw[2], 10000, FALSE)
              ELSE IF ~FloatLe(FloatLit(13, 10), c)
              THEN LuxValue(4, 146 * raw[1], 112 * raw[2], 100000, FALSE)
              ELSE LuxValue(5, 0, 0, 1, FALSE)
         ELSE LuxValue(0, 0, 0, 1, FALSE)
    ELSE LuxValue(0, 0, 0, 1, FALSE)

\* the conversion of get_lumi
Lux(raw) ==
    IF raw[1] # 0
    THEN LET c == FloatDiv(raw[2], raw[1]) IN
         IF FloatGt(c, FloatLit(0, 1))
         THEN IF FloatLe(c, FloatLit(5, 10))
              THEN LuxValue(1, 304 * raw[1], 620 * raw[1], 10000, TRUE)
              ELSE IF FloatLe(c, FloatLit(61, 100))
              THEN LuxValue(2, 224 * raw[1], 310 * raw[2], 10000, FALSE)
              ELSE IF FloatLe(c, FloatLit(8, 10))
              THEN LuxValue(3, 128 * raw[1], 153 * raw[2], 10000, FALSE)
              ELSE IF FloatLe(c, FloatLit(13, 10))
              THEN LuxValue(4, 146 * raw[1], 112 * raw[2], 100000, FALSE)
              ELSE LuxValue(5, 0, 0, 1, FALSE)
         ELSE LuxValue(0, 0, 0, 1, FALSE)
    ELSE LuxValue(0, 0, 0, 1, FALSE)

\* get_lumi: one _raw_lumi, then the conversion
get_lumi(slf, d, failAt, regs) ==
    LET r == _raw_lumi(slf, d, failAt, regs)
    IN  IF r.status # "ok" THEN r
        ELSE [r EXCEPT !.value = [raw |-> r.value, l |-> Lux(r.value)]]

I2CObject == [type |-> "I2C", val |-> 0]
OtherObject == [type |-> "SPI", val |-> 0]

\* mutant: the power-down write at the end of __init__ is missing
init_NoPowerDown(i2c, ready, d, failAt, regs) ==
    IF PyEq(i2c, PyNone) \/ i2c.type # "I2C"
    THEN Outcome("ValueError", NoValue, Start(d))
    ELSE
      LET probe == [Start(d) EXCEPT !.log = <<TxReady(ready)>>] IN
      IF ~ready THEN Outcome("NotFound", NoValue, probe)
      ELSE
        LET up == set_power_up(PyBool(TRUE), d, failAt, regs) IN
        [up EXCEPT !.log = probe.log \o @]

\* __init__: argument check, presence probe, power up, power down
init(i2c, ready, d, failAt, regs) ==
    IF PyEq(i2c, PyNone) \/ i2c.type # "I2C"
    THEN Outcome("ValueError", NoValue, Start(d))
    ELSE
      LET probe == [Start(d) EXCEPT !.log = <<TxReady(ready)>>] IN
      IF ~ready THEN Outcome("NotFound", NoValue, probe)
      ELSE
        LET up == set_power_up(PyBool(TRUE), d, failAt, regs) IN
        IF up.status # "ok"
        THEN [up EXCEPT !.log = probe.log \o @]
        ELSE LET down == set_power_up(PyBool(FALSE), up.dev,
                                      IF failAt = 0 THEN 0 ELSE failAt - 2, regs)
             IN  [down EXCEPT !.log = probe.log \o up.log \o @]

\* the instance dictionary __init__ leaves when it returns
init_self(i2c) == ("_i2c" :> i2c) @@ ("_addr" :> PyInt(DEFAULT_ADDR))

---------------------------------------------------------------------------
\* State machine.

NoSelf == [a \in {} |-> PyNone]

Constructed == "_i2c" \in DOMAIN self

Result(op, args, o) ==
    [op |-> op, args |-> args, status |-> o.status, value |-> o.value]

Init ==
    /\ self = NoSelf
    /\ dev = [power |-> 0]
    /\ bus = <<>>
    /\ result = [op |-> "none", args |-> <<>>, status |-> "ok", value |-> NoValue]

BoolArgs == {PyBool(TRUE), PyBool(FALSE), PyInt(1)}

\* TSL2561(i2c): a failed construction produces no object
Construct(i2c, ready, failAt, rb) ==
    /\ ~Constructed
    /\ LET o == init(i2c, ready, dev, failAt, Regs(rb, <<0, 0>>)) IN
       /\ self' = IF o.status = "ok" THEN init_self(i2c) ELSE NoSelf
       /\ dev' = o.dev
       /\ bus' = o.log
       /\ result' = Result("__init__", <<i2c, PyBool(ready)>>, o)

SetPowerUp(s, failAt, rb) ==
    /\ Constructed
    /\ LET o == set_power_up(s, dev, failAt, Regs(rb, <<0, 0>>)) IN
       /\ dev' = o.dev
       /\ bus' = o.log
       /\ result' = Result("set_power_up", <<s>>, o)
       /\ UNCHANGED self

SetTimingGain(timing, gain, manual_start, failAt) ==
    /\ Constructed
    /\ LET o == set_timing_gain(timing, gain, manual_start, dev, failAt) IN
       /\ self' = set_timing_gain_self(self, timing, gain, manual_start)
       /\ dev' = o.dev
       /\ bus' = o.log
       /\ result' = Result("set_timing_gain",
                           <<PyInt(timing), gain, manual_start>>, o)

GetId(failAt, rb) ==
    /\ Constructed
    /\ LET o == get_id(dev, failAt, Regs(rb, <<0, 0>>)) IN
       /\ dev' = o.dev
       /\ bus' = o.log
       /\ result' = Result("get_id", <<>>, o)
       /\ UNCHANGED self

RawLumi(failAt, k) ==
    /\ Constructed
    /\ LET o == _raw_lumi(self, dev, failAt, Regs(0, ChannelSamples[k])) IN
       /\ dev' = o.dev
       /\ bus' = o.log
       /\ result' = Result("_raw_lumi", <<>>, o)
       /\ UNCHANGED self

GetLumi(failAt, k) ==
    /\ Constructed
    /\ LET o == get_lumi(self, dev, failAt, Regs(0, ChannelSamples[k])) IN
       /\ dev' = o.dev
       /\ bus' = o.log
       /\ result' = Result("get_lumi", <<>>, o)
       /\ UNCHANGED self

Next ==
    \/ \E i2c \in {I2CObject, OtherObject, PyNone}, ready \in BOOLEAN,
          failAt \in 0..3, rb \in RegReadbacks :
          Construct(i2c, ready, failAt, rb)
    \/ \E s \in BoolArgs, failAt \in 0..2, rb \in RegReadbacks :
          SetPowerUp(s, failAt, rb)
    \/ \E timing \in 0..MaxTimingArg, gain \in BoolArgs,
          manual_start \in BoolArgs, failAt \in 0..1 :
          SetTimingGain(timing, gain, manual_start, failAt)
    \/ \E failAt \in 0..2, rb \in RegReadbacks : GetId(failAt, rb)
    \/ \E failAt \in 0..8, k \in 1..NumSamples : RawLumi(failAt, k)
    \/ \E failAt \in 0..8, k \in 1..NumSamples : GetLumi(failAt, k)

Spec == Init /\ [][Next]_vars

---------------------------------------------------------------------------
\* Reading the last call back from result and bus.

IsBoolArg(v) == v.type = "bool"
ArgIsTrue(v) == v.type = "bool" /\ v.val

\* the first n transactions of the last call all completed
BusOk(n) == Len(bus) >= n /\ \A i \in 1..n : bus[i].status # "OSError"

\* the byte the bus returned right after the one-byte command cmd was sent
ByteAfter(cmd) ==
    LET i == CHOOSE j \in 1..(Len(bus) - 1) :
                 bus[j].kind = "send" /\ bus[j].data = <<cmd>>
    IN  bus[i + 1].data[1]

\* attribute name of the instance, or "unset"
CachedGain(slf) ==
    IF "_gain" \in DOMAIN slf
    THEN (IF slf["_gain"].val THEN "on" ELSE "off")
    ELSE "unset"

CachedTiming(slf) ==
    IF "_timing" \in DOMAIN slf THEN slf["_timing"].val ELSE -1

LumiOps == {"_raw_lumi", "get_lumi"}

\* the last call was get_lumi and its _raw_lumi returned a channel pair
RawReturned == BusOk(8) /\ "_gain" \in DOMAIN self

IsZeroLux(l) == l.t1 = 0 /\ l.t2 = 0 /\ l.branch \in {0, 5}

---------------------------------------------------------------------------
\* C1: a set_timing_gain call that fails (invalid timing, or a transport
\* error raised by send) leaves the cached gain and timing as they were
\* before the call.  The code assigns the cache before it sends.
C1_FailedCallKeepsCache ==
    [][ (result'.op = "set_timing_gain" /\ result'.status # "ok")
        => (CachedGain(self') = CachedGain(self)
            /\ CachedTiming(self') = CachedTiming(self)) ]_vars

\* C2: set_power_up(True) writes [0x80, 0x03], reads back one byte and fails
\* if and only if that byte is not 0x03; set_power_up(False) writes
\* [0x80, 0x00] and reads nothing back.  The code compares the bytes object
\* recv returns with the integer 3, which is never equal.
C2_PowerUpReadbackChecked ==
    (result.op = "set_power_up" /\ IsBoolArg(result.args[1])
     /\ \A i \in 1..Len(bus) : bus[i].status = "ok")
    => IF result.args[1].val
       THEN /\ Len(bus) = 2
            /\ bus[1].kind = "send" /\ bus[1].data = <<128, 3>>
            /\ bus[2].kind = "recv" /\ Len(bus[2].data) = 1
            /\ (result.status = "StartupFailed") <=> (bus[2].data[1] # 3)
            /\ (bus[2].data[1] = 3) => (result.status = "ok")
       ELSE /\ Len(bus) = 1
            /\ bus[1].kind = "send" /\ bus[1].data = <<128, 0>>
            /\ result.status = "ok"

\* C3: construction fails with the not-found error and issues no send or
\* recv when the presence probe fails; it fails with the startup error and
\* produces no object when the probe succeeds and the power-up readback is
\* not 0x03.
C3_ConstructionFailsWhenItMust ==
    (result.op = "__init__" /\ result.args[1].type = "I2C")
    => /\ (~result.args[2].val)
          => (result.status = "NotFound"
              /\ \A i \in 1..Len(bus) : bus[i].kind = "is_ready")
       /\ (result.args[2].val /\ BusOk(3) /\ bus[3].data[1] # 3)
          => (result.status = "StartupFailed" /\ ~Constructed)

\* C4: a successful construction issues exactly the presence probe, the
\* power-up write [0x80, 0x03], a one-byte readback and the power-down write
\* [0x80, 0x00], in this order, and leaves 0x00 as the last value written to
\* the control register.
C4_ConstructionSequence ==
    (result.op = "__init__" /\ result.status = "ok")
    => /\ Len(bus) = 4
       /\ bus[1].kind = "is_ready" /\ bus[1].status = "ok"
       /\ bus[2].kind = "send" /\ bus[2].data = <<128, 3>>
       /\ bus[3].kind = "recv" /\ Len(bus[3].data) = 1
       /\ bus[4].kind = "send" /\ bus[4].data = <<128, 0>>
       /\ dev.power = 0
       /\ Constructed

C4_Witness ==
    /\ result.op = "__init__" /\ result.status = "ok"
    /\ Constructed /\ Len(bus) = 4 /\ dev.power = 0

\* C5: for timing in 0..3 and boolean gain and manual_start, set_timing_gain
\* sends exactly one message, [0x81, gain*16 + manual_start*8 + timing],
\* whatever the timing mode; for any other timing it raises ValueError and
\* sends nothing.
C5_TimingByte ==
    (result.op = "set_timing_gain")
    => LET t == result.args[1].val
           g == result.args[2]
           m == result.args[3]
       IN  IF t \in 0..3 /\ IsBoolArg(g) /\ IsBoolArg(m)
           THEN /\ result.status \in {"ok", "OSError"}
                /\ Len(bus) = 1 /\ bus[1].kind = "send"
                /\ bus[1].data = <<129, (IF g.val THEN 16 ELSE 0)
                                        + (IF m.val THEN 8 ELSE 0) + t>>
           ELSE /\ result.status = "ValueError"
                /\ bus = <<>>

C5_Witness ==
    /\ result.op = "set_timing_gain" /\ result.status = "ok"
    /\ result.args[1].val = 2 /\ ArgIsTrue(result.args[2])
    /\ ArgIsTrue(result.args[3])
    /\ bus = <<[kind |-> "send", data |-> <<129, 26>>, status |-> "ok"]>>

\* C6: _raw_lumi returns (high0*256 + low0, high1*256 + low1) when the cached
\* gain is on and exactly 16 times each value, not cut to 16 bits, when it is
\* off; the cached gain is the gain argument of the most recent
\* set_timing_gain call that assigned it, and no other call changes it.
C6_RawValue ==
    (result.op = "_raw_lumi" /\ result.status = "ok")
    => LET low0 == bus[2].data[1]
           high0 == bus[4].data[1]
           low1 == bus[6].data[1]
           high1 == bus[8].data[1]
       IN  /\ CachedGain(self) \in {"on", "off"}
           /\ CachedGain(self) = "on"
              => result.value = <<high0 * 256 + low0, high1 * 256 + low1>>
           /\ CachedGain(self) = "off"
              => result.value = <<16 * (high0 * 256 + low0),
                                  16 * (high1 * 256 + low1)>>

C6_GainStep ==
    IF result'.op = "set_timing_gain" /\ result'.status \in {"ok", "OSError"}
    THEN CachedGain(self') = (IF result'.args[2].val THEN "on" ELSE "off")
    ELSE CachedGain(self') = CachedGain(self)

C6_RawLumi == [](C6_RawValue) /\ [][C6_GainStep]_vars

C6_Witness ==
    /\ result.op = "_raw_lumi" /\ result.status = "ok"
    /\ CachedGain(self) = "off"
    /\ bus[2].data = <<255>> /\ bus[4].data = <<255>>
    /\ result.value = <<1048560, 1048560>>

\* C7: once _raw_lumi has returned a channel pair, get_lumi never raises, and
\* it returns 0 whenever channel 0 is 0 (whatever channel 1 is), whenever
\* channel 1 is 0, and whenever channel1 / channel0 > 1.3.
C7_NoSignalZero ==
    (result.op = "get_lumi" /\ RawReturned)
    => /\ result.status = "ok"
       /\ LET ch0 == result.value.raw[1]
              ch1 == result.value.raw[2]
          IN  (ch0 = 0 \/ ch1 = 0 \/ 10 * ch1 > 13 * ch0)
              => IsZeroLux(result.value.l)

C7_Witness ==
    /\ result.op = "get_lumi" /\ result.status = "ok"
    /\ result.value.raw[1] = 0 /\ result.value.raw[2] > 0
    /\ IsZeroLux(result.value.l)

\* the branch the ratio c1 / c0 selects, with inclusive upper bounds
RatioBranch(c0, c1) ==
    CASE 2 * c1 <= c0 -> 1
      [] 2 * c1 > c0 /\ 100 * c1 <= 61 * c0 -> 2
      [] 100 * c1 > 61 * c0 /\ 10 * c1 <= 8 * c0 -> 3
      [] 10 * c1 > 8 * c0 /\ 10 * c1 <= 13 * c0 -> 4
      [] 10 * c1 > 13 * c0 -> 5

\* C8: for channel0 > 0 and channel1 > 0 get_lumi takes branch 1 iff
\* c <= 0.5, branch 2 iff 0.5 < c <= 0.61, branch 3 iff 0.61 < c <= 0.8,
\* branch 4 iff 0.8 < c <= 1.3 and the zero result iff c > 1.3, where
\* c = channel1 / channel0; the branch is the same for the shifted channel
\* values and for the values as the registers hold them.
C8_BranchByRatio ==
    (result.op = "get_lumi" /\ result.status = "ok"
     /\ result.value.raw[1] > 0 /\ result.value.raw[2] > 0)
    => LET reg0 == bus[4].data[1] * 256 + bus[2].data[1]
           reg1 == bus[8].data[1] * 256 + bus[6].data[1]
           b == result.value.l.branch
       IN  /\ b = RatioBranch(result.value.raw[1], result.value.raw[2])
           /\ b = RatioBranch(reg0, reg1)
           /\ (b = 5) <=> IsZeroLux(result.value.l)

C8_Witness ==
    /\ result.op = "get_lumi" /\ result.status = "ok"
    /\ CachedGain(self) = "off"
    /\ result.value.raw = <<1600, 976>>
    /\ result.value.l.branch = 2

\* C9: _raw_lumi, and so get_lumi, issues send 0x8C, recv 1, send 0x8D,
\* recv 1, send 0x8E, recv 1, send 0x8F, recv 1 in this order; a transaction
\* that raises ends the call with that error and nothing is issued after it;
\* each received byte is used for the register its command addressed; the
\* call leaves the cached gain and timing unchanged.
C9_Transactions ==
    (result.op \in LumiOps)
    => /\ Len(bus) <= 8
       /\ \A i \in 1..Len(bus) :
             /\ bus[i].kind = (IF i % 2 = 1 THEN "send" ELSE "recv")
             /\ Len(bus[i].data) = 1
             /\ (i % 2 = 1) => bus[i].data[1] = 140 + (i - 1) \div 2
             /\ (bus[i].status = "OSError")
                => (i = Len(bus) /\ result.status = "OSError")
       /\ (Len(bus) < 8) => (Len(bus) > 0 /\ bus[Len(bus)].status = "OSError")
       /\ (result.status = "ok")
          => LET k == IF CachedGain(self) = "on" THEN 1 ELSE 16
                 raw == IF result.op = "get_lumi" THEN result.value.raw
                        ELSE result.value
             IN  /\ BusOk(8)
                 /\ raw[1] = k * (ByteAfter(141) * 256 + ByteAfter(140))
                 /\ raw[2] = k * (ByteAfter(143) * 256 + ByteAfter(142))

C9_CacheStep ==
    (result'.op \in LumiOps) => (self' = self)

C9_RawLumiBus == [](C9_Transactions) /\ [][C9_CacheStep]_vars

C9_Witness ==
    /\ result.op = "get_lumi" /\ result.status = "OSError"
    /\ Len(bus) = 5 /\ bus[5].status = "OSError"
    /\ bus[4].data = <<18>>

\* C10: after a successful construction the cached gain is a boolean, so
\* get_lumi and _raw_lumi complete with a result on a fresh driver whenever
\* no bus transaction raises.  __init__ never assigns _gain.
C10_GainDefined ==
    /\ Constructed => CachedGain(self) \in {"on", "off"}
    /\ (result.op \in LumiOps /\ BusOk(8)) => result.status = "ok"

====
